---- MODULE Spec2Model ----
(***************************************************************************)
(* Model of the agentic product-recommendation pipeline:                   *)
(*   graph.py      router -> (safety_response | planner -> retriever ->    *)
(*                 answerer) -> END                                        *)
(*   router.py     router_node, safety_response_node                       *)
(*   planner.py    planner_node                                            *)
(*   retriever.py  retriever_node, call_rag_search, call_web_search        *)
(*   answerer.py   answerer_node                                           *)
(*   comparison_table.py  get_product_url                                  *)
(*                                                                         *)
(* Python values are modelled as strings.  A dictionary is a record whose  *)
(* fields are all present; a missing key holds Absent, a key bound to      *)
(* Python's None holds None.  The external services (the four language     *)
(* model calls, the catalog tool, the web tool) are nondeterministic: each *)
(* call fails or answers with a value drawn from a small alphabet.         *)
(***************************************************************************)
EXTENDS Integers, Sequences, FiniteSets, TLC

VARIABLES
    pc,            \* the node the compiled graph runs next, "END", or "raised"
    user_input,    \* GraphState.user_input
    router,        \* GraphState.router (the intent)
    planner,       \* GraphState.planner (the plan)
    retriever,     \* GraphState.retriever (retrieval_results)
    answer,        \* GraphState.final_answer / citations / web_urls / grounded
    trace,         \* the nodes invoked so far, in order
    calls,         \* the collaborator calls made so far, in order
    rag_resp,      \* retriever_node's local: what call_rag_search returned
    web_resp,      \* retriever_node's local: what call_web_search returned
    recon_resp,    \* retriever_node's local: what the reconciliation call answered
                   \* (the three locals stay readable from retriever_node's
                   \* return until the next node starts)
    server,        \* the catalog tool's process (mcp_rag_server.py): the index
                   \* it holds and the rag_search call it has served
    product_url_lookup,   \* comparison_table._product_url_lookup, the
                   \* process-wide cache of the URL table
    previous       \* an earlier call of retriever_node in this process: what
                   \* its collaborators answered and what it returned

vars == <<pc, user_input, router, planner, retriever, answer, trace, calls,
          rag_resp, web_resp, recon_resp, server, product_url_lookup, previous>>

(***************************************************************************)
(* Bounds of the model.                                                    *)
(***************************************************************************)
MaxCatalog == 2     \* longest result list the catalog tool answers with
MaxWeb == 1         \* longest result list the web tool answers with
MaxRecon == 1       \* longest reconciled_results list the reconciler answers with

(***************************************************************************)
(* Python values.                                                          *)
(***************************************************************************)
Absent == "<absent>"     \* the key is not in the dictionary
None == "<None>"         \* Python's None
PyTrue == "True"

\* bool(v) for a string-or-None value reached through dict.get
Truthy(v) == v \notin {Absent, None, ""}

\* d.get(key): None when the key is missing
Get(v) == IF v = Absent THEN None ELSE v

\* d.get(key, default)
GetOr(v, default) == IF v = Absent THEN default ELSE v

\* a list-valued key that is missing from a dictionary
AbsentList == <<Absent>>

GetListOr(l, default) == IF l = AbsentList THEN default ELSE l

Range(s) == {s[i] : i \in 1..Len(s)}

SeqsUpTo(S, n) == UNION {[1..k -> S] : k \in 0..n}

\* list[:n]
Take(list, n) == SubSeq(list, 1, IF Len(list) < n THEN Len(list) ELSE n)

\* the value "no value yet" of a GraphState key that no node has written
Unset == [set |-> FALSE]

(***************************************************************************)
(* router.py                                                               *)
(***************************************************************************)
UserTexts == {"", "steel cleaner"}

EmptyConstraints ==
    [brand |-> Absent, category |-> Absent, max_price |-> Absent,
     min_price |-> Absent, must_contain |-> Absent]

BudgetConstraints ==
    [brand |-> "Acme", category |-> Absent, max_price |-> "20",
     min_price |-> None, must_contain |-> "eco"]

\* The JSON objects the classification call may answer with.  route may be
\* missing or a word outside the three routes; the other keys are either all
\* missing or all given, and a full answer comes with and without
\* safety_flags.
BareIntent ==
    [extracted_query |-> Absent, task |-> Absent,
     constraints |-> EmptyConstraints, safety_flags |-> <<>>]

FullIntent(safety_flags) ==
    [extracted_query |-> "cleaner", task |-> "find a cleaner",
     constraints |-> BudgetConstraints, safety_flags |-> safety_flags]

ClassifierResults ==
    { [route |-> r, extracted_query |-> d.extracted_query, task |-> d.task,
       constraints |-> d.constraints, safety_flags |-> d.safety_flags] :
        r \in {Absent, "search", "general", "unsafe", "chitchat"},
        d \in {BareIntent, FullIntent(<<>>), FullIntent(<<"weapons">>)} }

\* a variant of RouterFallback that drops the user text, as the empty-input
\* branch does
RouterFallback_no_query(text) ==
    [set |-> TRUE, route |-> "general", extracted_query |-> "", task |-> "",
     constraints |-> EmptyConstraints, safety_flags |-> <<>>]

\* router.py:50-60 and 126-136: the intent substituted when the
\* user text is empty or the classification call raises
RouterFallback(text) ==
    [set |-> TRUE, route |-> "general", extracted_query |-> text, task |-> "",
     constraints |-> EmptyConstraints, safety_flags |-> <<>>]

\* router.py:110-125: the intent built from the classifier's JSON
RouterFromResult(result, text) ==
    LET route == GetOr(result.route, "general")
    IN  [set |-> TRUE,
         route |-> IF route \notin {"search", "general", "unsafe"}
                   THEN "general" ELSE route,
         extracted_query |-> GetOr(result.extracted_query, text),
         task |-> GetOr(result.task, ""),
         constraints |-> result.constraints,
         safety_flags |-> result.safety_flags]

\* router.py:18-43: the fixed crisis-resource message
CrisisMessage == [kind |-> "crisis_resources"]

\* a variant of should_route_to_safety that decides on safety_flags
\* instead of route
should_route_to_safety_by_flags(router_output) ==
    IF ~router_output.set THEN "safe"
    ELSE IF router_output.safety_flags # <<>> THEN "unsafe" ELSE "safe"

\* graph.py:18-31
should_route_to_safety(router_output) ==
    IF ~router_output.set THEN "safe"
    ELSE IF router_output.route = "unsafe" THEN "unsafe" ELSE "safe"

\* graph.py:45-52: the conditional edge out of router
AfterRouter(router_output) ==
    IF should_route_to_safety(router_output) = "unsafe"
    THEN "safety_response" ELSE "planner"

Call(op, ok) == [op |-> op, ok |-> ok]

\* a call recorded together with the arguments it was made with
CallWith(op, ok, args) == [op |-> op, ok |-> ok, args |-> args]

\* router.py:46-136
router_node ==
    /\ pc = "router"
    /\ trace' = Append(trace, "router")
    /\ \/ /\ ~Truthy(user_input)
          /\ router' = RouterFallback("")
          /\ calls' = calls
       \/ /\ Truthy(user_input)
          /\ \/ /\ router' = RouterFallback(user_input)
                /\ calls' = Append(calls, Call("classify", FALSE))
             \/ \E result \in ClassifierResults :
                /\ router' = RouterFromResult(result, user_input)
                /\ calls' = Append(calls, Call("classify", TRUE))
    /\ pc' = AfterRouter(router')
    /\ UNCHANGED <<user_input, planner, retriever, answer,
                   rag_resp, web_resp, recon_resp, server,
                   product_url_lookup, previous>>

\* router.py:18-43
\* a variant of safety_response_node that returns the citation keys too
safety_response_node_with_citations ==
    /\ pc = "safety_response"
    /\ trace' = Append(trace, "safety_response")
    /\ answer' = [set |-> TRUE, final_answer |-> CrisisMessage,
                  has_citations |-> TRUE, citations |-> <<>>,
                  web_urls |-> <<>>, grounded |-> PyTrue]
    /\ pc' = "END"
    /\ UNCHANGED <<user_input, router, planner, retriever, calls,
                   rag_resp, web_resp, recon_resp, server,
                   product_url_lookup, previous>>

safety_response_node ==
    /\ pc = "safety_response"
    /\ trace' = Append(trace, "safety_response")
    /\ answer' = [set |-> TRUE, final_answer |-> CrisisMessage,
                  has_citations |-> FALSE, citations |-> <<>>,
                  web_urls |-> <<>>, grounded |-> Absent]
    /\ pc' = "END"
    /\ UNCHANGED <<user_input, router, planner, retriever, calls,
                   rag_resp, web_resp, recon_resp, server,
                   product_url_lookup, previous>>

(***************************************************************************)
(* planner.py                                                              *)
(***************************************************************************)
NoSearchParams ==
    [query |-> Absent, brand |-> Absent, category |-> Absent,
     max_price |-> Absent, min_price |-> Absent, must_contain |-> Absent,
     n_results |-> Absent, rerank |-> Absent]

\* The JSON objects the planning call may answer with: a bare object
\* (sources missing, empty or live-only, every other key missing) and a full
\* one (each key given, for the private catalog, the web, or both).
BarePlan ==
    [fields_to_retrieve |-> AbsentList, comparison_criteria |-> AbsentList,
     search_params |-> NoSearchParams, use_web_for |-> Absent]

FullPlan ==
    [fields_to_retrieve |-> <<"title", "price">>,
     comparison_criteria |-> <<"price">>,
     search_params |-> [NoSearchParams EXCEPT !.query = "eco steel cleaner",
                           !.max_price = "20", !.n_results = "1",
                           !.rerank = "False"],
     use_web_for |-> "current deals"]

PlanJson(sources, d) ==
    [sources |-> sources, fields_to_retrieve |-> d.fields_to_retrieve,
     comparison_criteria |-> d.comparison_criteria,
     search_params |-> d.search_params, use_web_for |-> d.use_web_for]

PlannerResults ==
    {PlanJson(s, BarePlan) : s \in {AbsentList, <<>>, <<"live">>}}
    \cup {PlanJson(s, FullPlan) :
              s \in {<<"private">>, <<"live">>, <<"private", "live">>}}

\* planner.py:91-98: the search parameters with their defaults
PlannerSearchParams(search_params, extracted_query) ==
    [search_params EXCEPT
        !.query = IF ~Truthy(search_params.query)
                  THEN extracted_query ELSE search_params.query,
        !.n_results = GetOr(search_params.n_results, "5"),
        !.rerank = GetOr(search_params.rerank, PyTrue)]

\* planner.py:100-105: uniq_id is added when the private catalog is used
PlannerFields(fields, sources) ==
    IF "private" \in Range(sources) /\ "uniq_id" \notin Range(fields)
    THEN Append(fields, "uniq_id") ELSE fields

\* planner.py:87-117: the plan built from the planning call's JSON
PlannerFromResult(plan, router_output) ==
    LET sources == GetListOr(plan.sources, <<"private">>)
        fields == GetListOr(plan.fields_to_retrieve,
                            <<"title", "brand", "price", "category">>)
    IN  [set |-> TRUE,
         sources |-> sources,
         fields_to_retrieve |-> PlannerFields(fields, sources),
         comparison_criteria |-> GetListOr(plan.comparison_criteria, <<>>),
         search_params |->
             PlannerSearchParams(plan.search_params, router_output.extracted_query),
         use_web_for |-> GetOr(plan.use_web_for, "")]

\* a variant of PlannerFallback that ignores the intent's constraints
PlannerFallback_no_constraints(router_output) ==
    [set |-> TRUE,
     sources |-> <<"private">>,
     fields_to_retrieve |-> <<"title", "brand", "price", "category", "uniq_id">>,
     comparison_criteria |-> <<>>,
     search_params |->
         [query |-> router_output.extracted_query,
          brand |-> None, category |-> None, max_price |-> None,
          min_price |-> None, must_contain |-> None,
          n_results |-> "5", rerank |-> PyTrue],
     use_web_for |-> ""]

\* planner.py:118-140: the plan substituted when the planning call raises
PlannerFallback(router_output) ==
    [set |-> TRUE,
     sources |-> <<"private">>,
     fields_to_retrieve |-> <<"title", "brand", "price", "category", "uniq_id">>,
     comparison_criteria |-> <<>>,
     search_params |->
         [query |-> router_output.extracted_query,
          brand |-> Get(router_output.constraints.brand),
          category |-> Get(router_output.constraints.category),
          max_price |-> Get(router_output.constraints.max_price),
          min_price |-> Get(router_output.constraints.min_price),
          must_contain |-> Get(router_output.constraints.must_contain),
          n_results |-> "5",
          rerank |-> PyTrue],
     use_web_for |-> ""]

\* planner.py:9-140
planner_node ==
    /\ pc = "planner"
    /\ trace' = Append(trace, "planner")
    /\ \/ /\ planner' = PlannerFallback(router)
          /\ calls' = Append(calls, Call("plan", FALSE))
       \/ \E plan \in PlannerResults :
          /\ planner' = PlannerFromResult(plan, router)
          /\ calls' = Append(calls, Call("plan", TRUE))
    /\ pc' = "retriever"
    /\ UNCHANGED <<user_input, router, retriever, answer,
                   rag_resp, web_resp, recon_resp, server,
                   product_url_lookup, previous>>

(***************************************************************************)
(* comparison_table.py: the product URL lookup keyed by uniq_id            *)
(***************************************************************************)
\* comparison_table.py:67-86: the table loaded from the catalog's CSV; only
\* rows with a non-empty uniq_id and an http URL are kept
ProductUrlLookup == [id \in {"u1"} |-> "http://shop/u1"]

\* comparison_table.py:9: the cache before the first load
NotLoaded == [loaded |-> FALSE, table |-> <<>>]

\* comparison_table.py:67-86: the table a call works with: the cached one,
\* or the one the first call builds from the CSV
load_product_url_lookup ==
    IF product_url_lookup.loaded THEN product_url_lookup.table
    ELSE ProductUrlLookup

\* a variant of CachedLookup in which the rows never reach the cached
\* dictionary
CachedLookup_stays_empty == [loaded |-> TRUE, table |-> <<>>]

\* comparison_table.py:70-86: the cache after a call
CachedLookup == [loaded |-> TRUE, table |-> load_product_url_lookup]

\* comparison_table.py:100-101: a call that returns before the table is
\* needed
SkipsLookup(uniq_id) == ~Truthy(uniq_id) \/ uniq_id = "N/A"

\* comparison_table.py:98-104
get_product_url(uniq_id) ==
    IF SkipsLookup(uniq_id) THEN None
    ELSE IF uniq_id \in DOMAIN load_product_url_lookup
         THEN load_product_url_lookup[uniq_id] ELSE None

(***************************************************************************)
(* retriever.py: what the collaborators answer                             *)
(***************************************************************************)
\* call_rag_search / call_web_search return None when the call raises
\* (retriever.py:71-75, 111-115), an error dictionary without results when
\* the reply cannot be unwrapped (retriever.py:63-70, 106-110), and otherwise
\* the tool's dictionary {query, results}.
NoResponse == [kind |-> "none", query |-> "", results |-> <<>>]
ErrorResponse == [kind |-> "error", query |-> "", results |-> <<>>]
OkResponse(query, results) == [kind |-> "ok", query |-> query, results |-> results]

\* bool(response): None is false, a non-empty dictionary is true
RespTruthy(resp) == resp.kind # "none"

\* A product record: the keys the pipeline reads.
Record(title, uniq_id, doc_id, url, source, brand, category, price) ==
    [title |-> title, uniq_id |-> uniq_id, doc_id |-> doc_id, url |-> url,
     source |-> source, brand |-> brand, category |-> category, price |-> price]

\* Raw catalog records: an identified record whose URL the lookup resolves,
\* one identified by doc_id only that carries a URL of its own, and one
\* with no identity at all.
CatalogRecords ==
    { Record("EcoClean X", "u1", "d1", Absent, Absent, "Acme", "Cleaning", "15"),
      Record("SteelShine", "", "d2", "http://stray", Absent, "Brill", "Cleaning", ""),
      Record("SteelShine", "", "", "http://stray", Absent, "Brill", "Cleaning", "25") }

\* Raw web records: a plain one, and one that leaks catalog identity.
WebRecords ==
    { Record("EcoClean X", Absent, Absent, "http://x", Absent, Absent, Absent, Absent),
      Record("Web Deal", "u1", "d1", "http://y", Absent, Absent, Absent, Absent) }

\* Records the reconciliation call may answer with: faithful ones, and ones
\* with merged, hallucinated or untagged fields.
ReconRecords ==
    { Record("EcoClean X", "u1", Absent, Absent, "local_corpus", "Acme", Absent, "15"),
      Record("EcoClean X", Absent, Absent, "http://x", "web_search", Absent, Absent, "14"),
      Record("Hallucinated", "u9", Absent, "http://evil", Absent, Absent, Absent, Absent),
      Record("Hallucinated", "u9", Absent, "http://evil", "local_corpus", Absent, Absent, Absent),
      Record("EcoClean X", "u1", Absent, "http://evil", "web_search", Absent, Absent, Absent),
      Record("EcoClean X", "u9", Absent, Absent, Absent, Absent, Absent, Absent),
      Record("Hallucinated", Absent, Absent, "http://evil", Absent, Absent, Absent, Absent),
      Record("EcoClean X", Absent, Absent, Absent, "merged", Absent, Absent, Absent) }

ReconNotes ==
    { [conflicts |-> <<>>, recommendations |-> <<>>],
      [conflicts |-> <<"price differs">>, recommendations |-> <<"buy local">>] }

ReconNotInvoked ==
    [kind |-> "not_invoked", results |-> <<>>, conflicts |-> <<>>,
     recommendations |-> <<>>]

ReconFailed ==
    [kind |-> "failed", results |-> <<>>, conflicts |-> <<>>,
     recommendations |-> <<>>]

(***************************************************************************)
(* mcp_rag_server.py: the catalog tool                                     *)
(***************************************************************************)
MaxIndex == 2       \* most candidates the index holds for a query

UpperCase == "ABCDEFGHIJKLMNOPQRSTUVWXYZ"
LowerCase == "abcdefghijklmnopqrstuvwxyz"

\* str.lower(), letter by letter
UpperToLower ==
    [c \in {SubSeq(UpperCase, i, i) : i \in 1..Len(UpperCase)} |->
        LET i == CHOOSE i \in 1..Len(UpperCase) : SubSeq(UpperCase, i, i) = c
        IN  SubSeq(LowerCase, i, i)]

LowerChar(c) == IF c \in DOMAIN UpperToLower THEN UpperToLower[c] ELSE c

Lower(text) ==
    LET lowered[i \in 0..Len(text)] ==
            IF i = 0 THEN "" ELSE lowered[i - 1] \o LowerChar(SubSeq(text, i, i))
    IN  lowered[Len(text)]

\* needle in text
Contains(needle, text) ==
    \E i \in 1..(Len(text) - Len(needle) + 1) :
        SubSeq(text, i, i + Len(needle) - 1) = needle

\* str(meta.get(key, "")): str(None) is "None"
Str(v) == IF v = Absent THEN "" ELSE IF v = None THEN "None" ELSE v

\* the numbers the model writes as decimal strings
NumberOf == [s \in {"0", "1", "3", "5", "15", "20", "25"} |->
                CASE s = "0" -> 0 [] s = "1" -> 1 [] s = "3" -> 3 [] s = "5" -> 5
                  [] s = "15" -> 15 [] s = "20" -> 20 [] s = "25" -> 25]

\* mcp_rag_server.py:74-78: the price of a candidate: None for an empty,
\* missing or unparseable price, a number, or the not-a-number that float()
\* reads from the text "nan"
NoPrice == [kind |-> "None", value |-> 0]
NaN == [kind |-> "nan", value |-> 0]

\* a variant of ParsePrice that reads an unparseable price as 0
ParsePrice_unparseable_zero(price_str) ==
    IF GetOr(price_str, "") \in {"", None} THEN NoPrice
    ELSE IF price_str \in DOMAIN NumberOf
         THEN [kind |-> "float", value |-> NumberOf[price_str]]
         ELSE [kind |-> "float", value |-> 0]

ParsePrice(price_str) ==
    IF GetOr(price_str, "") \in {"", None} THEN NoPrice
    ELSE IF price_str \in DOMAIN NumberOf
         THEN [kind |-> "float", value |-> NumberOf[price_str]]
         ELSE IF price_str = "nan" THEN NaN ELSE NoPrice

\* One candidate of the index: its document text and its metadata.
Candidate(doc, uniq_id, doc_id, title, brand, category, price) ==
    [doc |-> doc,
     meta |-> [uniq_id |-> uniq_id, doc_id |-> doc_id, title |-> title,
               brand |-> brand, category |-> category, price |-> price]]

IndexPrices == {"15", "20", "25", "N/A", "", None, Absent, "nan"}

\* The candidates the index may hold: an Acme product, one whose title and
\* text name Acme while its brand field does not, and one without a brand;
\* each with the text store_chromadb.py builds for it.
IndexCandidates ==
    { Candidate("EcoClean X by Acme, eco", Absent, "d1",
                "EcoClean X", "Acme", "Cleaning", price) : price \in IndexPrices }
    \cup
    { Candidate("Polish for ACME pans", "u2", "d2",
                "Polish for ACME pans", "Brill", "Kitchen", price) :
          price \in {"15", "25"} }
    \cup
    { Candidate("SteelShine polish", Absent, "d3",
                "SteelShine", None, Absent, "15") }

\* mcp_rag_server.py:52-90: what the filter loop does with one candidate:
\* "keep", "drop", or "raise" when must_contain meets a candidate without a
\* document text
FilterVerdict(doc, meta, brand, category, max_price, min_price, must_contain) ==
    LET brand_found ==
            \/ Contains(Lower(brand), Lower(Str(meta.brand)))
            \/ Contains(Lower(brand), Lower(Str(meta.title)))
            \/ (Truthy(doc) /\ Contains(Lower(brand), Lower(doc)))
        price == ParsePrice(meta.price)
    IN  IF Truthy(brand) /\ ~brand_found THEN "drop"
        ELSE IF Truthy(category)
                /\ ~Contains(Lower(category), Lower(Str(meta.category)))
        THEN "drop"
        ELSE IF max_price # None /\ price.kind = "float"
                /\ price.value > NumberOf[max_price]
        THEN "drop"
        ELSE IF min_price # None /\ price.kind = "float"
                /\ price.value < NumberOf[min_price]
        THEN "drop"
        ELSE IF Truthy(must_contain)
        THEN IF doc = None THEN "raise"
             ELSE IF ~Contains(Lower(must_contain), Lower(doc)) THEN "drop"
                  ELSE "keep"
        ELSE "keep"

\* mcp_rag_server.py:27-106
apply_metadata_filters(results, brand, category, max_price, min_price, must_contain) ==
    LET verdict(c) == FilterVerdict(c.doc, c.meta, brand, category,
                                    max_price, min_price, must_contain)
    IN  [raised |-> \E i \in 1..Len(results) : verdict(results[i]) = "raise",
         documents |-> SelectSeq(results, LAMBDA c : verdict(c) = "keep")]

\* the orders a rerank may put n documents in
Orders(n) == {order \in [1..n -> 1..n] : \A i, j \in 1..n : i # j => order[i] # order[j]}

\* mcp_rag_server.py:109-130: the documents in the order of their similarity
optional_rerank(documents, order) ==
    IF documents = <<>> THEN documents
    ELSE [i \in 1..Len(documents) |-> documents[order[i]]]

\* mcp_rag_server.py:199-209: the record returned for one candidate
ResultRecord(c) ==
    Record(GetOr(c.meta.title, ""),
           IF Truthy(c.meta.uniq_id) THEN c.meta.uniq_id
           ELSE GetOr(c.meta.doc_id, ""),
           GetOr(c.meta.doc_id, ""),
           Absent, Absent,
           GetOr(c.meta.brand, ""), GetOr(c.meta.category, ""),
           GetOr(c.meta.price, ""))

\* mcp_rag_server.py:154-172: the candidates queried from the index, filtered
FilteredCandidates(args, index) ==
    apply_metadata_filters(Take(index, NumberOf[args.n_results] * 2),
                           args.brand, args.category, args.max_price,
                           args.min_price, args.must_contain)

\* a variant of rag_search_result that returns every filtered candidate
rag_search_result_untruncated(args, index, order) ==
    LET filtered == FilteredCandidates(args, index)
        ranked == IF args.rerank = PyTrue
                  THEN optional_rerank(filtered.documents, order)
                  ELSE filtered.documents
    IN  [raised |-> filtered.raised, filtered |-> filtered.documents,
         results |-> [i \in 1..Len(ranked) |-> ResultRecord(ranked[i])]]

\* mcp_rag_server.py:137-217: the tool's answer for the arguments args when
\* the index holds the candidates index and a rerank would order the
\* filtered documents by order
rag_search_result(args, index, order) ==
    LET n_results == NumberOf[args.n_results]
        raw_results == Take(index, n_results * 2)
        filtered == FilteredCandidates(args, index)
        ranked == IF args.rerank = PyTrue
                  THEN optional_rerank(filtered.documents, order)
                  ELSE filtered.documents
        returned == Take(ranked, n_results)
    IN  IF raw_results = <<>>
        THEN [raised |-> FALSE, filtered |-> <<>>, results |-> <<>>]
        ELSE IF filtered.raised
        THEN [raised |-> TRUE, filtered |-> <<>>, results |-> <<>>]
        ELSE [raised |-> FALSE, filtered |-> filtered.documents,
              results |-> [i \in 1..Len(returned) |-> ResultRecord(returned[i])]]

\* the catalog tool is not part of the run: its answers are arbitrary
ServerOff ==
    [pc |-> "off", index |-> <<>>, args |-> NoSearchParams, raised |-> FALSE,
     filtered |-> <<>>, results |-> <<>>]

\* the catalog tool waits for a call over the index it holds
ServerIdle(index) == [ServerOff EXCEPT !.pc = "idle", !.index = index]

(***************************************************************************)
(* retriever.py: retriever_node                                            *)
(***************************************************************************)
\* retriever.py:127-148: the plan the retriever substitutes for a missing one
RetrieverFallbackPlan(router_output) ==
    LET extracted_query == IF router_output.set
                           THEN router_output.extracted_query ELSE ""
        constraints == IF router_output.set
                       THEN router_output.constraints ELSE EmptyConstraints
    IN  [set |-> TRUE,
         sources |-> <<"private">>,
         fields_to_retrieve |-> <<"title", "brand", "price", "category">>,
         comparison_criteria |-> <<>>,
         search_params |->
             [query |-> extracted_query,
              brand |-> Get(constraints.brand),
              category |-> Get(constraints.category),
              max_price |-> Get(constraints.max_price),
              min_price |-> Get(constraints.min_price),
              must_contain |-> Get(constraints.must_contain),
              n_results |-> "5",
              rerank |-> PyTrue],
         use_web_for |-> ""]

\* retriever.py:124-148
RetrieverPlan(planner_output, router_output) ==
    IF planner_output.set THEN planner_output
    ELSE RetrieverFallbackPlan(router_output)

\* retriever.py:187-204: stamping of one catalog record, in place
StampCatalog(result) ==
    LET r1 == [result EXCEPT !.source = "local_corpus"]
        r2 == IF ~Truthy(r1.uniq_id) /\ Truthy(r1.doc_id)
              THEN [r1 EXCEPT !.uniq_id = r1.doc_id] ELSE r1
        uniq_id == GetOr(r2.uniq_id, "")
        product_url == get_product_url(uniq_id)
    IN  IF Truthy(uniq_id)
        THEN IF Truthy(product_url)
             THEN [r2 EXCEPT !.url = product_url]
             ELSE r2
        ELSE [r2 EXCEPT !.url = Absent]

\* retriever.py:183-204
StampCatalogResults(private_results) ==
    IF RespTruthy(private_results) /\ private_results.results # <<>>
    THEN [private_results EXCEPT
             !.results = [i \in 1..Len(private_results.results) |->
                             StampCatalog(private_results.results[i])]]
    ELSE private_results

\* a variant of StampWeb that removes uniq_id but leaves doc_id
StampWeb_keeps_doc_id(result) ==
    [result EXCEPT !.source = "web_search", !.uniq_id = Absent]

\* retriever.py:220-226 (and the copies at 361-368, 406-413)
StampWeb(result) ==
    [result EXCEPT !.source = "web_search", !.uniq_id = Absent, !.doc_id = Absent]

\* retriever.py:219-226
StampWebResults(web_results) ==
    IF RespTruthy(web_results) /\ web_results.results # <<>>
    THEN [web_results EXCEPT
             !.results = [i \in 1..Len(web_results.results) |->
                             StampWeb(web_results.results[i])]]
    ELSE web_results

\* retriever.py:313-322 (and 350-358, 393-401): attach the resolved URL,
\* otherwise remove any url
ResolveUrl(result) ==
    LET uniq_id == GetOr(result.uniq_id, "")
        product_url == get_product_url(uniq_id)
    IN  IF Truthy(uniq_id) /\ Truthy(product_url)
        THEN [result EXCEPT !.url = product_url]
        ELSE [result EXCEPT !.url = Absent]

\* retriever.py:346-359 and 389-402: a copy of a catalog record, re-stamped
RestampCatalog(result) ==
    ResolveUrl([result EXCEPT !.source = "local_corpus"])

\* a variant of ReconcileInvoked that does not look at web_results
ReconcileInvoked_private_only(private_results, web_results) ==
    RespTruthy(private_results)

\* retriever.py:236: the reconciliation block is entered
ReconcileInvoked(private_results, web_results) ==
    RespTruthy(private_results) /\ RespTruthy(web_results)

\* retriever.py:292-293: the title -> record maps (a later record wins)
HasTitle(list, title) ==
    \E i \in 1..Len(list) : GetOr(list[i].title, "") = title

ByTitle(list, title) ==
    LET last == CHOOSE i \in 1..Len(list) :
                    /\ GetOr(list[i].title, "") = title
                    /\ \A j \in (i+1)..Len(list) : GetOr(list[j].title, "") # title
    IN  list[last]

\* a variant of Classify that takes every record that is not catalog-origin
\* for a web record
Classify_rest_is_web(result) ==
    LET source == GetOr(result.source, "")
    IN  IF source = "local_corpus" \/ (Truthy(result.uniq_id) /\ ~Truthy(result.url))
        THEN "local"
        ELSE "web"

\* retriever.py:304 and 327: how a reconciled record is classified
Classify(result) ==
    LET source == GetOr(result.source, "")
    IN  IF source = "local_corpus" \/ (Truthy(result.uniq_id) /\ ~Truthy(result.url))
        THEN "local"
        ELSE IF source = "web_search"
                \/ (Truthy(result.url) /\ ~Truthy(result.uniq_id))
             THEN "web"
             ELSE "drop"

\* retriever.py:306-326: a record classified as catalog-origin
CleanLocal(result, private_results_list) ==
    LET title == GetOr(result.title, "")
    IN  IF HasTitle(private_results_list, title)
        THEN LET private_data == ByTitle(private_results_list, title)
                 uniq_id == IF Truthy(result.uniq_id) THEN result.uniq_id
                            ELSE IF Truthy(private_data.uniq_id)
                                 THEN private_data.uniq_id
                                 ELSE GetOr(private_data.doc_id, "")
                 r1 == ResolveUrl([result EXCEPT !.uniq_id = uniq_id,
                                                 !.source = "local_corpus"])
             IN  IF r1.doc_id = Absent
                 THEN [r1 EXCEPT !.doc_id = GetOr(private_data.doc_id, "")]
                 ELSE r1
        ELSE result

\* retriever.py:329-338: a record classified as web-origin
CleanWeb(result, web_results_list) ==
    LET title == GetOr(result.title, "")
    IN  IF HasTitle(web_results_list, title)
        THEN LET web_data == ByTitle(web_results_list, title)
             IN  [result EXCEPT
                     !.url = IF Truthy(result.url) THEN result.url
                             ELSE GetOr(web_data.url, ""),
                     !.source = "web_search",
                     !.uniq_id = Absent,
                     !.doc_id = Absent]
        ELSE result

\* retriever.py:299-338: the clean-up loop over the reconciled records
CleanedResults(reconciled_results_list, private_results_list, web_results_list) ==
    LET kept == SelectSeq(reconciled_results_list,
                          LAMBDA r : Classify(r) # "drop")
    IN  [i \in 1..Len(kept) |->
            IF Classify(kept[i]) = "local"
            THEN CleanLocal(kept[i], private_results_list)
            ELSE CleanWeb(kept[i], web_results_list)]

MaxFallbackCatalog == 5
MaxFallbackWeb == 3

\* retriever.py:341-368: both sources side by side when nothing was kept
FallbackConcat(private_results_list, web_results_list) ==
    LET ps == Take(private_results_list, MaxFallbackCatalog)
        ws == Take(web_results_list, MaxFallbackWeb)
    IN  [i \in 1..Len(ps) |-> RestampCatalog(ps[i])]
        \o [i \in 1..Len(ws) |-> StampWeb(ws[i])]

\* retriever.py:231-378: reconciled_results, conflicts and recommendations
\* after the reconciliation block; private_results and web_results are the
\* stamped responses, recon the reconciliation call's answer
Reconcile(private_results, web_results, recon) ==
    IF ReconcileInvoked(private_results, web_results) /\ recon.kind = "ok"
    THEN LET cleaned == CleanedResults(recon.results, private_results.results,
                                       web_results.results)
         IN  [reconciled_results |->
                  OkResponse(private_results.query,
                             IF cleaned = <<>>
                             THEN FallbackConcat(private_results.results,
                                                 web_results.results)
                             ELSE cleaned),
              conflicts |-> recon.conflicts,
              recommendations |-> recon.recommendations]
    ELSE [reconciled_results |-> private_results,
          conflicts |-> <<>>,
          recommendations |-> <<>>]

\* retriever.py:381-413: the results assembled when reconciled_results is
\* false
AssembleResults(private_results, web_results) ==
    (IF RespTruthy(private_results) /\ private_results.results # <<>>
     THEN [i \in 1..Len(private_results.results) |->
              RestampCatalog(private_results.results[i])]
     ELSE <<>>)
    \o
    (IF RespTruthy(web_results) /\ web_results.results # <<>>
     THEN [i \in 1..Len(web_results.results) |-> StampWeb(web_results.results[i])]
     ELSE <<>>)

\* retriever.py:381, 415: reading the query of web_results when both
\* private_results and web_results are None raises AttributeError
RetrieverRaises(reconciled_results, private_results, web_results) ==
    /\ ~RespTruthy(reconciled_results)
    /\ ~RespTruthy(private_results)
    /\ web_results.kind = "none"

\* retriever.py:381-417
FinalResults(reconciled_results, private_results, web_results) ==
    IF ~RespTruthy(reconciled_results)
    THEN OkResponse(IF RespTruthy(private_results)
                    THEN private_results.query ELSE web_results.query,
                    AssembleResults(private_results, web_results))
    ELSE reconciled_results

\* no earlier call of retriever_node in this process
NoPrevious ==
    [set |-> FALSE, rag |-> NoResponse, web |-> NoResponse,
     recon |-> ReconNotInvoked, raised |-> FALSE, result |-> Unset]

\* retriever.py:157-166: the arguments of the catalog call
RagSearchArgs(plan) ==
    [query |-> GetOr(plan.search_params.query, ""),
     brand |-> Get(plan.search_params.brand),
     category |-> Get(plan.search_params.category),
     max_price |-> Get(plan.search_params.max_price),
     min_price |-> Get(plan.search_params.min_price),
     must_contain |-> Get(plan.search_params.must_contain),
     n_results |-> GetOr(plan.search_params.n_results, "5"),
     rerank |-> GetOr(plan.search_params.rerank, PyTrue)]

\* retriever.py:9-75: what call_rag_search returns when the catalog tool
\* has served the call: None when the tool raised, its dictionary otherwise
ServedResponse ==
    IF server.raised THEN NoResponse
    ELSE OkResponse(server.args.query, server.results)

\* retriever.py:155-167: the catalog call is made only for "private"; its
\* answer is the catalog tool's when that tool is part of the run.  A
\* collaborator that answered an earlier call in this process answers the
\* same again, with an equal dictionary or with the very dictionary it
\* handed out before, which that call stamped in place.
CatalogOutcomes(plan) ==
    IF "private" \in Range(plan.sources)
    THEN CASE previous.set ->
                  {previous.rag, StampCatalogResults(previous.rag)}
           [] server.pc = "off" ->
                  {NoResponse, ErrorResponse}
                  \cup {OkResponse(plan.search_params.query, rs) :
                            rs \in SeqsUpTo(CatalogRecords, MaxCatalog)}
           [] server.pc = "idle" -> {}
           [] server.pc = "done" -> {ServedResponse}
    ELSE {NoResponse}

\* retriever.py:214-216
WebQuery(plan) ==
    IF Truthy(plan.use_web_for)
    THEN plan.search_params.query \o " " \o plan.use_web_for
    ELSE plan.search_params.query

\* a variant of WebSearchArgs that passes the plan's n_results on
WebSearchArgs_plan_n_results(plan) ==
    [query |-> WebQuery(plan),
     n_results |-> GetOr(plan.search_params.n_results, "5")]

\* retriever.py:217: call_web_search(web_query, n_results=3)
WebSearchArgs(plan) == [query |-> WebQuery(plan), n_results |-> "3"]

\* retriever.py:211-217: the web call is made only for "live"
WebOutcomes(plan) ==
    IF "live" \in Range(plan.sources)
    THEN IF previous.set
         THEN {previous.web, StampWebResults(previous.web)}
         ELSE {NoResponse, ErrorResponse}
              \cup {OkResponse(WebQuery(plan), rs) :
                        rs \in SeqsUpTo(WebRecords, MaxWeb)}
    ELSE {NoResponse}

\* retriever.py:274-285: the reconciliation call raises, or answers with a
\* JSON object
ReconOutcomes(private_results, web_results) ==
    IF ReconcileInvoked(private_results, web_results)
    THEN IF previous.set
         THEN {previous.recon}
         ELSE {ReconFailed}
              \cup {[kind |-> "ok", results |-> rs, conflicts |-> n.conflicts,
                     recommendations |-> n.recommendations] :
                        rs \in SeqsUpTo(ReconRecords, MaxRecon), n \in ReconNotes}
    ELSE {ReconNotInvoked}

\* retriever.py:193-196, 312-315: get_product_url reaches the table for a
\* stamped catalog record that has an identifier, or for a reconciled record
\* matched to a catalog record and identified
LookupConsulted(private_results, web_results, rc) ==
    \/ /\ RespTruthy(private_results)
       /\ \E i \in 1..Len(private_results.results) :
              ~SkipsLookup(GetOr(private_results.results[i].uniq_id, ""))
    \/ /\ ReconcileInvoked(private_results, web_results)
       /\ rc.kind = "ok"
       /\ \E i \in 1..Len(rc.results) :
              /\ Classify(rc.results[i]) = "local"
              /\ HasTitle(private_results.results, GetOr(rc.results[i].title, ""))
              /\ ~SkipsLookup(CleanLocal(rc.results[i],
                                         private_results.results).uniq_id)

\* the collaborator calls one retrieve makes, in order
RetrieverCalls(plan, p, w, rc) ==
    (IF "private" \in Range(plan.sources)
     THEN <<CallWith("rag_search", p.kind = "ok", RagSearchArgs(plan))>>
     ELSE <<>>)
    \o (IF "live" \in Range(plan.sources)
        THEN <<CallWith("web_search", w.kind = "ok", WebSearchArgs(plan))>>
        ELSE <<>>)
    \o (IF rc.kind # "not_invoked"
        THEN <<Call("reconcile", rc.kind = "ok")>> ELSE <<>>)

\* mcp_rag_server.py:136-217: the catalog tool serves the call that
\* retriever_node makes for its plan
rag_search ==
    /\ pc = "retriever"
    /\ server.pc = "idle"
    /\ LET plan == RetrieverPlan(planner, router)
           args == RagSearchArgs(plan)
       IN  /\ "private" \in Range(plan.sources)
           /\ \E order \in Orders(Len(FilteredCandidates(args, server.index).documents)) :
                 LET served == rag_search_result(args, server.index, order)
                 IN  server' = [server EXCEPT !.pc = "done", !.args = args,
                                              !.raised = served.raised,
                                              !.filtered = served.filtered,
                                              !.results = served.results]
    /\ UNCHANGED <<pc, user_input, router, planner, retriever, answer, trace,
                   calls, rag_resp, web_resp, recon_resp,
                   product_url_lookup, previous>>

\* retriever.py:118-427
retriever_node ==
    /\ pc = "retriever"
    /\ trace' = Append(trace, "retriever")
    /\ LET plan == RetrieverPlan(planner, router)
       IN  \E p \in CatalogOutcomes(plan), w \in WebOutcomes(plan) :
             LET private_results == StampCatalogResults(p)
                 web_results == StampWebResults(w)
             IN  \E rc \in ReconOutcomes(private_results, web_results) :
                   LET rec == Reconcile(private_results, web_results, rc)
                       final_results == FinalResults(rec.reconciled_results,
                                                     private_results, web_results)
                   IN  /\ rag_resp' = p
                       /\ web_resp' = w
                       /\ recon_resp' = rc
                       /\ calls' = calls \o RetrieverCalls(plan, p, w, rc)
                       /\ product_url_lookup' =
                              IF LookupConsulted(private_results, web_results, rc)
                              THEN CachedLookup ELSE product_url_lookup
                       /\ IF RetrieverRaises(rec.reconciled_results,
                                             private_results, web_results)
                          THEN /\ pc' = "raised"
                               /\ retriever' = retriever
                          ELSE /\ pc' = "answerer"
                               /\ retriever' =
                                      [set |-> TRUE,
                                       kind |-> final_results.kind,
                                       query |-> final_results.query,
                                       results |-> final_results.results,
                                       conflicts |-> rec.conflicts,
                                       recommendations |-> rec.recommendations]
    /\ UNCHANGED <<user_input, router, planner, answer, server, previous>>

(***************************************************************************)
(* answerer.py                                                             *)
(***************************************************************************)
\* answerer.py:20-23
NoProducts == [kind |-> "no_products"]

\* answerer.py:26-29
SafetyConcerns(safety_flags) == [kind |-> "safety_concerns", flags |-> safety_flags]

\* a variant of AnswererResults that substitutes one empty record when
\* retrieval_results has no results key
AnswererResults_default_record(retriever_output) ==
    IF retriever_output.set /\ retriever_output.kind = "ok"
    THEN retriever_output.results
    ELSE <<Record(Absent, Absent, Absent, Absent, Absent, Absent, Absent, Absent)>>

\* answerer.py:11-12: the results the answerer reads
AnswererResults(retriever_output) ==
    IF retriever_output.set /\ retriever_output.kind = "ok"
    THEN retriever_output.results ELSE <<>>

\* answerer.py:103
Citations(results) ==
    LET cited == SelectSeq(results,
                           LAMBDA r : Truthy(r.uniq_id) \/ Truthy(r.doc_id))
    IN  [i \in 1..Len(cited) |->
            IF Truthy(cited[i].uniq_id) THEN cited[i].uniq_id
            ELSE GetOr(cited[i].doc_id, "")]

\* answerer.py:104
WebUrls(results) ==
    LET linked == SelectSeq(results, LAMBDA r : Truthy(r.url))
    IN  [i \in 1..Len(linked) |-> linked[i].url]

MaxListedUrls == 5

MaxSynthesisRecords == 5

\* answerer.py:47: the records put into the synthesis prompt, and into the
\* grounding prompt (answerer.py:92)
SynthesisInput(results) == Take(results, MaxSynthesisRecords)

\* answerer.py:83-117: the answer after a successful synthesis and
\* grounding check; mentions_http says whether the synthesized text
\* contains "http"
SynthesizedAnswer(results, mentions_http, grounded) ==
    [set |-> TRUE,
     final_answer |->
         [kind |-> "synthesized",
          note |-> ~grounded,
          sources |-> IF WebUrls(results) # <<>> /\ ~mentions_http
                      THEN Take(WebUrls(results), MaxListedUrls) ELSE <<>>],
     has_citations |-> TRUE,
     citations |-> Citations(results),
     web_urls |-> WebUrls(results),
     grounded |-> grounded]

\* a variant of TemplateAnswer that collects citations and URLs over every
\* record, as the synthesized answer does
TemplateAnswer_all_records(results) ==
    LET top == results[1]
        uniq_id == IF Truthy(top.uniq_id) THEN top.uniq_id
                   ELSE GetOr(top.doc_id, "")
    IN  [set |-> TRUE,
         final_answer |->
             [kind |-> "template",
              title |-> GetOr(top.title, "Product"),
              brand |-> GetOr(top.brand, "N/A"),
              category |-> GetOr(top.category, "N/A"),
              price |-> GetOr(top.price, "N/A"),
              citation |-> IF Truthy(uniq_id) THEN uniq_id ELSE Absent,
              source |-> IF Truthy(top.url) THEN top.url ELSE Absent],
         has_citations |-> TRUE,
         citations |-> Citations(results),
         web_urls |-> WebUrls(results),
         grounded |-> TRUE]

\* answerer.py:118-140: the templated answer built from the first record
TemplateAnswer(results) ==
    LET top == results[1]
        uniq_id == IF Truthy(top.uniq_id) THEN top.uniq_id
                   ELSE GetOr(top.doc_id, "")
    IN  [set |-> TRUE,
         final_answer |->
             [kind |-> "template",
              title |-> GetOr(top.title, "Product"),
              brand |-> GetOr(top.brand, "N/A"),
              category |-> GetOr(top.category, "N/A"),
              price |-> GetOr(top.price, "N/A"),
              citation |-> IF Truthy(uniq_id) THEN uniq_id ELSE Absent,
              source |-> IF Truthy(top.url) THEN top.url ELSE Absent],
         has_citations |-> TRUE,
         citations |-> IF Truthy(uniq_id) THEN <<uniq_id>> ELSE <<>>,
         web_urls |-> IF Truthy(top.url) THEN <<top.url>> ELSE <<>>,
         grounded |-> TRUE]

\* answerer.py:20-29: an answer that sets final_answer only
OnlyFinalAnswer(final_answer) ==
    [set |-> TRUE, final_answer |-> final_answer, has_citations |-> FALSE,
     citations |-> <<>>, web_urls |-> <<>>, grounded |-> Absent]

\* answerer.py:9-140
answerer_node ==
    /\ pc = "answerer"
    /\ trace' = Append(trace, "answerer")
    /\ LET results == AnswererResults(retriever)
           safety_flags == router.safety_flags
       IN  \/ /\ results = <<>>
              /\ answer' = OnlyFinalAnswer(NoProducts)
              /\ calls' = calls
           \/ /\ results # <<>>
              /\ safety_flags # <<>>
              /\ answer' = OnlyFinalAnswer(SafetyConcerns(safety_flags))
              /\ calls' = calls
           \/ /\ results # <<>>
              /\ safety_flags = <<>>
              /\ \/ /\ answer' = TemplateAnswer(results)
                    /\ calls' = Append(calls, CallWith("synthesize", FALSE,
                                                       SynthesisInput(results)))
                 \/ /\ answer' = TemplateAnswer(results)
                    /\ calls' = calls \o
                           <<CallWith("synthesize", TRUE, SynthesisInput(results)),
                             CallWith("ground", FALSE, SynthesisInput(results))>>
                 \/ \E mentions_http \in BOOLEAN, grounded \in BOOLEAN :
                    /\ answer' = SynthesizedAnswer(results, mentions_http, grounded)
                    /\ calls' = calls \o
                           <<CallWith("synthesize", TRUE, SynthesisInput(results)),
                             CallWith("ground", TRUE, SynthesisInput(results))>>
    /\ pc' = "END"
    /\ rag_resp' = NoResponse
    /\ web_resp' = NoResponse
    /\ recon_resp' = ReconNotInvoked
    /\ UNCHANGED <<user_input, router, planner, retriever, server,
                   product_url_lookup, previous>>

\* the longest retrieval result answerer_node is called with
MaxRetrieved == 6

Digits == <<"1", "2", "3", "4", "5", "6", "7", "8", "9">>

\* retriever.py:183-204, 219-226: the i-th record of a retrieval result, a
\* stamped catalog record or a stamped web record
RetrievedRecord(i, source) ==
    IF source = "local_corpus"
    THEN Record("Product " \o Digits[i], "u" \o Digits[i], "d" \o Digits[i],
                "http://shop/u" \o Digits[i], source, "Acme", "Cleaning", "15")
    ELSE Record("Deal " \o Digits[i], Absent, Absent,
                "http://w" \o Digits[i], source, Absent, Absent, Absent)

\* retriever.py:419-427: the retrieval results answerer_node may be given:
\* up to MaxRetrieved records, as the catalog returns for a plan with that
\* n_results, each from the catalog or from the web
RetrievalResults ==
    UNION { { [i \in 1..n |-> RetrievedRecord(i, tags[i])] :
                tags \in [1..n -> {"local_corpus", "web_search"}] } :
            n \in 0..MaxRetrieved }

\* answerer.py:9-16: answerer_node is called on a state that holds an
\* intent, a plan and a retrieval result
InitAnswerer ==
    /\ pc = "answerer"
    /\ user_input = "steel cleaner"
    /\ router \in {RouterFromResult(result, user_input) :
                       result \in {c \in ClassifierResults :
                                      /\ c.route = "search"
                                      /\ c.constraints = BudgetConstraints}}
    /\ planner = PlannerFallback(router)
    /\ \E results \in RetrievalResults :
           retriever = [set |-> TRUE, kind |-> "ok",
                        query |-> router.extracted_query, results |-> results,
                        conflicts |-> <<>>, recommendations |-> <<>>]
    /\ answer = Unset
    /\ trace = <<>>
    /\ calls = <<>>
    /\ rag_resp = NoResponse
    /\ web_resp = NoResponse
    /\ recon_resp = ReconNotInvoked
    /\ server = ServerOff
    /\ product_url_lookup = NotLoaded
    /\ previous = NoPrevious

NextAnswerer == answerer_node

SpecAnswerer == InitAnswerer /\ [][NextAnswerer]_vars

(***************************************************************************)
(* graph.py: the compiled graph                                            *)
(***************************************************************************)
\* graph.py:33-42 and run_graph.py:6-8: a run starts at router with only
\* user_input set
Init ==
    /\ pc = "router"
    /\ user_input \in UserTexts
    /\ router = Unset
    /\ planner = Unset
    /\ retriever = Unset
    /\ answer = Unset
    /\ trace = <<>>
    /\ calls = <<>>
    /\ rag_resp = NoResponse
    /\ web_resp = NoResponse
    /\ recon_resp = ReconNotInvoked
    /\ server = ServerOff
    /\ product_url_lookup = NotLoaded
    /\ previous = NoPrevious

\* graph.py:36-57
Next ==
    \/ router_node
    \/ safety_response_node
    \/ planner_node
    \/ retriever_node
    \/ answerer_node

Spec == Init /\ [][Next]_vars

(***************************************************************************)
(* The catalog path with the catalog tool in the run: a plan for the       *)
(* private catalog has been made, rag_search serves the retriever's call   *)
(* over the index, and retriever_node returns what the tool answered.      *)
(***************************************************************************)
\* the search parameters a planning answer may carry: price bounds, and
\* besides them nothing, one text filter, or an override of a paging default
ServerSearchParams ==
    { [NoSearchParams EXCEPT !.query = "steel cleaner",
                             !.max_price = max_price, !.min_price = min_price,
                             ![o.key] = o.value] :
        max_price \in {Absent, "0", "20"}, min_price \in {Absent, "20"},
        o \in { [key |-> "brand", value |-> Absent],
                [key |-> "brand", value |-> "acme"],
                [key |-> "category", value |-> "CLEAN"],
                [key |-> "must_contain", value |-> "Eco"],
                [key |-> "n_results", value |-> "1"],
                [key |-> "rerank", value |-> "False"] } }

ServerPlans ==
    { PlanJson(<<"private">>, [BarePlan EXCEPT !.search_params = sp]) :
          sp \in ServerSearchParams }

InitServer ==
    /\ pc = "retriever"
    /\ user_input = "steel cleaner"
    /\ router = RouterFallback(user_input)
    /\ \E plan \in ServerPlans : planner = PlannerFromResult(plan, router)
    /\ retriever = Unset
    /\ answer = Unset
    /\ trace = <<"router", "planner">>
    /\ calls = <<Call("classify", FALSE), Call("plan", TRUE)>>
    /\ rag_resp = NoResponse
    /\ web_resp = NoResponse
    /\ recon_resp = ReconNotInvoked
    /\ \E index \in SeqsUpTo(IndexCandidates, MaxIndex) : server = ServerIdle(index)
    /\ product_url_lookup = NotLoaded
    /\ previous = NoPrevious

NextServer ==
    \/ rag_search
    \/ retriever_node

SpecServer == InitServer /\ [][NextServer]_vars

(***************************************************************************)
(* retriever_node called on its own, twice in one process, on the same     *)
(* state and with collaborators that answer the second call as they        *)
(* answered the first.                                                     *)
(***************************************************************************)
\* the states retriever_node is called on: with the plan of a planner run,
\* or with no plan, and then with or without an intent
InitRepeat ==
    /\ pc = "retriever"
    /\ user_input = "steel cleaner"
    /\ router \in {Unset}
           \cup {RouterFromResult(result, user_input) :
                     result \in {c \in ClassifierResults :
                                    /\ c.route = "search"
                                    /\ c.constraints = BudgetConstraints
                                    /\ c.safety_flags = <<>>}}
    /\ planner \in {Unset}
           \cup (IF router.set
                 THEN {PlannerFallback(router)}
                      \cup {PlannerFromResult(plan, router) : plan \in PlannerResults}
                 ELSE {})
    /\ retriever = Unset
    /\ answer = Unset
    /\ trace = <<>>
    /\ calls = <<>>
    /\ rag_resp = NoResponse
    /\ web_resp = NoResponse
    /\ recon_resp = ReconNotInvoked
    /\ server = ServerOff
    /\ product_url_lookup = NotLoaded
    /\ previous = NoPrevious

\* retriever.py:118: retriever_node is called a second time on the same
\* state; the caller keeps what the first call returned
retriever_node_called_again ==
    /\ pc \in {"answerer", "raised"}
    /\ ~previous.set
    /\ previous' = [set |-> TRUE, rag |-> rag_resp, web |-> web_resp,
                    recon |-> recon_resp, raised |-> (pc = "raised"),
                    result |-> retriever]
    /\ retriever' = Unset
    /\ pc' = "retriever"
    /\ UNCHANGED <<user_input, router, planner, answer, trace, calls,
                   rag_resp, web_resp, recon_resp, server, product_url_lookup>>

NextRepeat ==
    \/ retriever_node
    \/ retriever_node_called_again

SpecRepeat == InitRepeat /\ [][NextRepeat]_vars

(***************************************************************************)
(* Properties                                                              *)
(***************************************************************************)
Ran(node) == node \in Range(trace)

CallMade(op) == \E i \in 1..Len(calls) : calls[i].op = op

CallFailed(op) == \E i \in 1..Len(calls) : calls[i].op = op /\ ~calls[i].ok

\* the last node invoked
LastNode == IF trace = <<>> THEN "" ELSE trace[Len(trace)]

\* C1: whenever the intent's route is unsafe, whatever its other fields, the
\* run goes router -> safety_response -> END: planner, retriever and
\* answerer are never invoked, no collaborator other than the classifier is
\* called, and at END the final answer is the fixed crisis-resource message
\* and the output carries no citations.
C1_SafetyShortCircuit ==
    (router.set /\ router.route = "unsafe") =>
        /\ pc \in {"safety_response", "END"}
        /\ ~Ran("planner") /\ ~Ran("retriever") /\ ~Ran("answerer")
        /\ \A i \in 1..Len(calls) : calls[i].op = "classify"
        /\ planner = Unset /\ retriever = Unset
        /\ pc = "END" =>
              /\ trace = <<"router", "safety_response">>
              /\ answer.set
              /\ answer.final_answer = CrisisMessage
              /\ ~answer.has_citations
              /\ answer.citations = <<>>

\* C1 witness: an unsafe run whose intent carries no safety flag has ended.
C1_Witness ==
    /\ pc = "END"
    /\ router.set /\ router.route = "unsafe" /\ router.safety_flags = <<>>
    /\ Ran("safety_response")

\* C8: when the classification call fails for a non-empty user text,
\* router_node does not raise and yields the default intent (route general,
\* extracted_query the user text, empty task, constraints and safety_flags);
\* the run continues to the planner and never enters the safety branch.
C8_ClassifierFailureDefault ==
    CallFailed("classify") =>
        /\ user_input # ""
        /\ router = [set |-> TRUE, route |-> "general",
                     extracted_query |-> user_input, task |-> "",
                     constraints |-> EmptyConstraints, safety_flags |-> <<>>]
        /\ LastNode = "router" => pc = "planner"
        /\ Len(trace) >= 2 => trace[2] = "planner"
        /\ ~Ran("safety_response")
        /\ pc # "safety_response"

\* C8 witness: the classification call failed and the planner has run.
C8_Witness ==
    /\ CallFailed("classify")
    /\ Ran("planner")

RetrieverDone == LastNode = "retriever"

Requested(source) == planner.set /\ source \in Range(planner.sources)

\* the identifier a raw catalog record is emitted with: its uniq_id, or its
\* doc_id when it has no uniq_id
EmittedId(raw) ==
    IF Truthy(raw.uniq_id) THEN raw.uniq_id
    ELSE IF Truthy(raw.doc_id) THEN raw.doc_id ELSE raw.uniq_id

\* record r is raw catalog record raw, tagged local_corpus
IsCatalogRecordOf(r, raw) ==
    /\ r.source = "local_corpus"
    /\ r.title = raw.title /\ r.brand = raw.brand
    /\ r.category = raw.category /\ r.price = raw.price
    /\ r.doc_id = raw.doc_id
    /\ r.uniq_id = EmittedId(raw)

\* record r is raw web record raw, tagged web_search and without identity
IsWebRecordOf(r, raw) ==
    /\ r.source = "web_search"
    /\ r.title = raw.title /\ r.url = raw.url
    /\ r.uniq_id = Absent /\ r.doc_id = Absent

\* C2 (the claim as stated): every record retriever_node returns satisfies
\* exactly one of (a) it has uniq_id and its url is absent or the URL
\* resolved from that uniq_id, (b) it has url and neither uniq_id nor doc_id.
C2_FieldShape(r) ==
    LET a == /\ Truthy(r.uniq_id)
             /\ (r.url = Absent \/ r.url = get_product_url(r.uniq_id))
        b == /\ Truthy(r.url)
             /\ ~Truthy(r.uniq_id) /\ ~Truthy(r.doc_id)
    IN  (a \/ b) /\ ~(a /\ b)

C2_Claim ==
    (RetrieverDone /\ pc = "answerer") =>
        \A i \in 1..Len(retriever.results) : C2_FieldShape(retriever.results[i])

\* C3: when both sources are requested, the catalog search answers with a
\* non-empty list and the web search raises, retriever_node returns exactly
\* the catalog records, all of them, in the catalog's order, each tagged
\* local_corpus, with empty conflicts and recommendations, and the
\* reconciliation call is not made.
C3_WebFailureKeepsCatalog ==
    ( /\ RetrieverDone
      /\ Requested("private") /\ Requested("live")
      /\ rag_resp.kind = "ok" /\ rag_resp.results # <<>>
      /\ CallFailed("web_search") /\ web_resp.kind = "none" ) =>
        /\ pc = "answerer"
        /\ retriever.set /\ retriever.kind = "ok"
        /\ Len(retriever.results) = Len(rag_resp.results)
        /\ \A i \in 1..Len(rag_resp.results) :
               IsCatalogRecordOf(retriever.results[i], rag_resp.results[i])
        /\ retriever.conflicts = <<>>
        /\ retriever.recommendations = <<>>
        /\ ~CallMade("reconcile")

\* C3 witness: two different catalog records came back, the web call failed
\* and the retriever returned.
C3_Witness ==
    /\ RetrieverDone /\ pc = "answerer"
    /\ Requested("private") /\ Requested("live")
    /\ Len(rag_resp.results) = 2
    /\ rag_resp.results[1] # rag_resp.results[2]
    /\ CallFailed("web_search")
    /\ Len(retriever.results) = 2

\* C4: when live is requested, the catalog gave nothing because its call
\* raised (or was not requested), and the web search answers with a
\* non-empty list, retriever_node does not raise and returns only the web
\* records, each tagged web_search and carrying neither uniq_id nor doc_id.
C4_CatalogFailureKeepsWeb ==
    ( /\ RetrieverDone
      /\ Requested("live")
      /\ rag_resp.kind = "none"
      /\ web_resp.kind = "ok" /\ web_resp.results # <<>> ) =>
        /\ pc = "answerer"
        /\ retriever.set /\ retriever.kind = "ok"
        /\ Len(retriever.results) = Len(web_resp.results)
        /\ \A i \in 1..Len(web_resp.results) :
               IsWebRecordOf(retriever.results[i], web_resp.results[i])

\* C4 witness: both sources requested, the catalog call raised, the web
\* answered with a record that leaks catalog identity, and the retriever
\* returned.
C4_Witness ==
    /\ RetrieverDone /\ pc = "answerer"
    /\ Requested("private") /\ Requested("live")
    /\ CallFailed("rag_search")
    /\ web_resp.kind = "ok" /\ web_resp.results # <<>>
    /\ Truthy(web_resp.results[1].doc_id)
    /\ retriever.results # <<>>

\* C5 (the claim as stated): given a plan whose sources is empty,
\* retriever_node calls neither the catalog, the web nor the reconciliation
\* service and returns, without raising, an empty record sequence with
\* empty conflicts and recommendations.
C5_Claim ==
    (RetrieverDone /\ planner.set /\ planner.sources = <<>>) =>
        /\ ~CallMade("rag_search") /\ ~CallMade("web_search")
        /\ ~CallMade("reconcile")
        /\ pc = "answerer"
        /\ retriever.set
        /\ AnswererResults(retriever) = <<>>
        /\ retriever.conflicts = <<>>
        /\ retriever.recommendations = <<>>

\* C6 (the claim as stated): when both sources answered with non-empty
\* lists and the reconciliation call fails, retriever_node returns every
\* catalog record followed by every web record, unmerged.
C6_Claim ==
    ( /\ RetrieverDone
      /\ rag_resp.kind = "ok" /\ rag_resp.results # <<>>
      /\ web_resp.kind = "ok" /\ web_resp.results # <<>>
      /\ CallFailed("reconcile") ) =>
        /\ pc = "answerer"
        /\ Len(retriever.results) = Len(rag_resp.results) + Len(web_resp.results)
        /\ \A i \in 1..Len(rag_resp.results) :
               IsCatalogRecordOf(retriever.results[i], rag_resp.results[i])
        /\ \A i \in 1..Len(web_resp.results) :
               IsWebRecordOf(retriever.results[Len(rag_resp.results) + i],
                             web_resp.results[i])

\* a requested source gave records
SourceGaveRecords(source, resp) ==
    Requested(source) /\ resp.kind = "ok" /\ resp.results # <<>>

\* C7 (the claim as stated): retriever_node never raises; for every plan and
\* every outcome of the two fetches it returns retrieval_results with
\* conflicts and recommendations, and the record sequence is empty when
\* every requested source failed or returned nothing.
C7_Claim ==
    RetrieverDone =>
        /\ pc = "answerer"
        /\ retriever.set
        /\ ( ~SourceGaveRecords("private", rag_resp)
             /\ ~SourceGaveRecords("live", web_resp) ) =>
               AnswererResults(retriever) = <<>>

\* graph.py:55-57: the order of the stages of a safe run
PipelineOrder == <<"router", "planner", "retriever", "answerer">>

\* C10 (the claim as stated): a run whose route is search or general
\* executes router, planner, retriever, answerer in that order, each once
\* and one after the other, and goes on to END whatever the collaborators
\* do: after k stages the next one is due, and after the fourth the run is
\* at END.
C10_Claim ==
    (router.set /\ router.route \in {"search", "general"}) =>
        /\ Len(trace) <= Len(PipelineOrder)
        /\ trace = SubSeq(PipelineOrder, 1, Len(trace))
        /\ pc = IF Len(trace) = Len(PipelineOrder) THEN "END"
                ELSE PipelineOrder[Len(trace) + 1]

\* answerer_node was the last node invoked
AnswererDone == LastNode = "answerer"

\* C11: when the retrieval result has at least one record, safety_flags is
\* empty and the synthesis call (or the grounding call after it) fails,
\* answerer_node does not raise and returns the templated answer built from
\* the first record's title, brand, category and price, with citations equal
\* to the first record's uniq_id-or-doc_id when it has one and web_urls equal
\* to its url when it has one.
C11_TemplateOnFailure ==
    (AnswererDone /\ (CallFailed("synthesize") \/ CallFailed("ground"))) =>
        /\ pc = "END"
        /\ retriever.results # <<>> /\ router.safety_flags = <<>>
        /\ LET top == retriever.results[1]
               id == IF Truthy(top.uniq_id) THEN top.uniq_id
                     ELSE IF Truthy(top.doc_id) THEN top.doc_id ELSE ""
           IN  /\ answer.set
               /\ answer.final_answer.kind = "template"
               /\ answer.final_answer.title =
                      (IF top.title = Absent THEN "Product" ELSE top.title)
               /\ answer.final_answer.brand =
                      (IF top.brand = Absent THEN "N/A" ELSE top.brand)
               /\ answer.final_answer.category =
                      (IF top.category = Absent THEN "N/A" ELSE top.category)
               /\ answer.final_answer.price =
                      (IF top.price = Absent THEN "N/A" ELSE top.price)
               /\ answer.citations = (IF id # "" THEN <<id>> ELSE <<>>)
               /\ answer.web_urls =
                      (IF Truthy(top.url) THEN <<top.url>> ELSE <<>>)

\* C11 witness: two different records were retrieved, the first one
\* identified, the grounding call failed after a successful synthesis and the
\* run has ended.
C11_Witness ==
    /\ AnswererDone /\ pc = "END"
    /\ CallFailed("ground")
    /\ Len(retriever.results) = 2
    /\ retriever.results[1] # retriever.results[2]
    /\ Truthy(retriever.results[1].uniq_id)
    /\ Truthy(retriever.results[2].uniq_id)

\* C12: whenever the retrieval result reaching answerer_node has no records
\* (including when retrieval_results has no results key), the final answer is
\* the fixed "I couldn't find any suitable products" message and neither the
\* synthesis call nor the grounding call is made.
C12_NoProductsMessage ==
    (AnswererDone /\ (retriever.kind # "ok" \/ retriever.results = <<>>)) =>
        /\ pc = "END"
        /\ answer.set
        /\ answer.final_answer = [kind |-> "no_products"]
        /\ ~CallMade("synthesize") /\ ~CallMade("ground")

\* C12 witness: the catalog tool's reply could not be unwrapped, so
\* retrieval_results has no results key, and the answerer has run.
C12_Witness ==
    /\ AnswererDone /\ pc = "END"
    /\ retriever.set /\ retriever.kind = "error"
    /\ answer.set

\* the catalog tool has served a call whose only filters are price bounds
OnlyPriceBounds ==
    /\ server.pc = "done"
    /\ server.args.brand = None /\ server.args.category = None
    /\ server.args.must_contain = None

\* a candidate's price, as stored, is a decimal number
NumericPrice(price) == price \in {"0", "1", "3", "5", "15", "20", "25"}

\* the price bounds admit a stored price: it is not a number, or it lies
\* within the bounds that are given
WithinBounds(price, max_price, min_price) ==
    NumericPrice(price) =>
        /\ max_price # None => NumberOf[price] <= NumberOf[max_price]
        /\ min_price # None => NumberOf[price] >= NumberOf[min_price]

\* C13: apply_metadata_filters with only price bounds set keeps a candidate
\* if and only if its price is absent or unparseable, or its numeric price p
\* satisfies p <= max_price (when given) and p >= min_price (when given); a
\* non-numeric price never causes an error; and the survivors, in the tool's
\* order and up to n_results of them, are the records retriever_node returns.
C13_PriceFilter ==
    OnlyPriceBounds =>
        LET queried == Take(server.index, 2 * NumberOf[server.args.n_results])
            kept == SelectSeq(queried,
                        LAMBDA c : WithinBounds(c.meta.price, server.args.max_price,
                                                server.args.min_price))
            wanted == NumberOf[server.args.n_results]
        IN  /\ ~server.raised
            /\ server.filtered = kept
            /\ Len(server.results) = IF Len(kept) < wanted THEN Len(kept) ELSE wanted
            /\ \A i \in 1..Len(server.results) :
                   \E j \in 1..Len(kept) :
                       /\ server.results[i].title = kept[j].meta.title
                       /\ server.results[i].price =
                              (IF kept[j].meta.price = Absent THEN ""
                               ELSE kept[j].meta.price)
            /\ RetrieverDone =>
                   /\ pc = "answerer"
                   /\ Len(retriever.results) = Len(server.results)
                   /\ \A i \in 1..Len(server.results) :
                          /\ retriever.results[i].title = server.results[i].title
                          /\ retriever.results[i].price = server.results[i].price

\* C13 witness: with max_price 20 as the only filter and an index holding a
\* candidate priced 15 and one priced 25, retriever_node has returned exactly
\* the record priced 15.
C13_Witness ==
    /\ OnlyPriceBounds /\ RetrieverDone
    /\ server.args.max_price = "20" /\ server.args.min_price = None
    /\ Len(server.index) = 2
    /\ server.index[1].meta.price = "15" /\ server.index[2].meta.price = "25"
    /\ Len(retriever.results) = 1
    /\ retriever.results[1].price = "15"

\* C13 second witness state: a candidate with a price that is not a number
\* passed a filter with both bounds
C13_UnparseableKept ==
    /\ OnlyPriceBounds /\ RetrieverDone
    /\ server.args.max_price = "20" /\ server.args.min_price = "20"
    /\ \E i \in 1..Len(retriever.results) : retriever.results[i].price = "N/A"

\* the second of two calls of retriever_node has returned or raised
SecondCallDone == previous.set /\ pc \in {"answerer", "raised"}

\* C14: running retriever_node twice in the same process with the same plan
\* and with collaborators that answer the second call as they answered the
\* first yields two results with identical records in identical order and
\* identical conflicts and recommendations; neither the one-time loading of
\* the URL lookup table nor the in-place stamping of the collaborators'
\* records by the first call changes what the second call returns.
C14_SecondCallSame ==
    SecondCallDone =>
        /\ (pc = "raised") = previous.raised
        /\ pc = "answerer" =>
              /\ retriever.set /\ previous.result.set
              /\ retriever.kind = previous.result.kind
              /\ retriever.results = previous.result.results
              /\ retriever.conflicts = previous.result.conflicts
              /\ retriever.recommendations = previous.result.recommendations

\* C14 witness: the second call was answered with the catalog dictionary the
\* first call had stamped in place, found the URL table already loaded,
\* reconciled, and returned a catalog record carrying a resolved URL.
C14_Witness ==
    /\ SecondCallDone /\ pc = "answerer"
    /\ previous.rag.kind = "ok" /\ rag_resp # previous.rag
    /\ product_url_lookup.loaded
    /\ recon_resp.kind = "ok"
    /\ \E i \in 1..Len(retriever.results) :
           /\ retriever.results[i].source = "local_corpus"
           /\ retriever.results[i].url = "http://shop/u1"

\* C15 (the claim as stated): every plan that retriever_node executes has
\* uniq_id among fields_to_retrieve whenever private is among its sources,
\* be it the plan built from the planning answer, the planner's fallback
\* plan, or the plan the retriever substitutes when it receives none.
C15_Claim ==
    LastNode = "retriever" =>
        LET plan == RetrieverPlan(planner, router)
        IN  "private" \in Range(plan.sources) =>
                "uniq_id" \in Range(plan.fields_to_retrieve)

\* retriever_node has returned (it was the last node invoked and did not
\* raise)
RetrieverReturned == RetrieverDone /\ pc = "answerer"

\* C16 (the claim as stated): every record in the results returned by
\* retriever_node carries a source tag equal to local_corpus or web_search,
\* on every path.
C16_Claim ==
    RetrieverReturned =>
        \A i \in 1..Len(retriever.results) :
            retriever.results[i].source \in {"local_corpus", "web_search"}

\* C17 (the claim as stated): every record with source local_corpus in the
\* results returned by retriever_node has a non-empty uniq_id, and a raw
\* catalog record that lacked uniq_id but had doc_id is emitted with that
\* doc_id as its uniq_id.
C17_Claim ==
    RetrieverReturned =>
        /\ \A i \in 1..Len(retriever.results) :
               retriever.results[i].source = "local_corpus" =>
                   Truthy(retriever.results[i].uniq_id)
        /\ (recon_resp.kind = "not_invoked" /\ rag_resp.kind = "ok") =>
               \A i \in 1..Len(rag_resp.results) :
                   ( /\ ~Truthy(rag_resp.results[i].uniq_id)
                     /\ Truthy(rag_resp.results[i].doc_id) ) =>
                       retriever.results[i].uniq_id = rag_resp.results[i].doc_id

\* C18 (the claim as stated): when both sources are requested, the catalog
\* search succeeds with an empty result list and the web search succeeds
\* with a non-empty one, the records retriever_node returns include the web
\* records, whether reconciliation is skipped, succeeds or fails.
C18_Claim ==
    ( /\ RetrieverDone
      /\ Requested("private") /\ Requested("live")
      /\ rag_resp.kind = "ok" /\ rag_resp.results = <<>>
      /\ web_resp.kind = "ok" /\ web_resp.results # <<>> ) =>
        /\ pc = "answerer"
        /\ \A j \in 1..Len(web_resp.results) :
               \E i \in 1..Len(retriever.results) :
                   IsWebRecordOf(retriever.results[i], web_resp.results[j])

\* C19 (the claim as stated): the reconciliation service is invoked in a
\* retrieve only if both the catalog fetch and the web fetch produced a
\* non-empty list of records.
C19_Claim ==
    (RetrieverDone /\ CallMade("reconcile")) =>
        /\ rag_resp.kind = "ok" /\ rag_resp.results # <<>>
        /\ web_resp.kind = "ok" /\ web_resp.results # <<>>

\* some record of list has this title
TitleIn(list, title) == \E j \in 1..Len(list) : list[j].title = title

\* C20 (the claim as stated): after the post-reconciliation validation, an
\* emitted catalog-origin record whose title is that of an original catalog
\* record carries that record's uniq_id and a url that is absent or resolved
\* from that uniq_id; an emitted web-origin record whose title is that of an
\* original web record carries that record's url and neither uniq_id nor
\* doc_id.
C20_Claim ==
    (RetrieverReturned /\ recon_resp.kind = "ok") =>
        \A i \in 1..Len(retriever.results) :
            LET r == retriever.results[i]
            IN  /\ (r.source = "local_corpus" /\ TitleIn(rag_resp.results, r.title)) =>
                       /\ \E j \in 1..Len(rag_resp.results) :
                              /\ rag_resp.results[j].title = r.title
                              /\ r.uniq_id = EmittedId(rag_resp.results[j])
                       /\ (r.url = Absent \/ r.url = get_product_url(r.uniq_id))
                /\ (r.source = "web_search" /\ TitleIn(web_resp.results, r.title)) =>
                       /\ \E j \in 1..Len(web_resp.results) :
                              /\ web_resp.results[j].title = r.title
                              /\ r.url = web_resp.results[j].url
                       /\ r.uniq_id = Absent /\ r.doc_id = Absent

\* a reconciled record that is neither catalog-origin nor web-origin: its
\* source tag is neither local_corpus nor web_search, and it has both
\* uniq_id and url or has neither
Unclassifiable(r) ==
    /\ r.source \notin {"local_corpus", "web_search"}
    /\ Truthy(r.uniq_id) = Truthy(r.url)

\* C21: a record returned by the reconciliation service that cannot be
\* classified as catalog-origin or web-origin never appears in the results
\* returned by retriever_node, and its presence never makes retriever_node
\* raise.
C21_UnclassifiableDropped ==
    ( /\ RetrieverDone /\ recon_resp.kind = "ok"
      /\ \E j \in 1..Len(recon_resp.results) :
             Unclassifiable(recon_resp.results[j]) ) =>
        /\ pc = "answerer"
        /\ \A j \in 1..Len(recon_resp.results) :
               Unclassifiable(recon_resp.results[j]) =>
                   \A i \in 1..Len(retriever.results) :
                       /\ retriever.results[i] # recon_resp.results[j]
                       /\ ~Unclassifiable(retriever.results[i])

\* C21 witness: the reconciler answered with a record that has both uniq_id
\* and url and no source tag, both sources had given records, and
\* retriever_node returned records.
C21_Witness ==
    /\ RetrieverReturned /\ recon_resp.kind = "ok"
    /\ \E j \in 1..Len(recon_resp.results) :
           /\ Unclassifiable(recon_resp.results[j])
           /\ Truthy(recon_resp.results[j].uniq_id)
    /\ rag_resp.results # <<>> /\ web_resp.results # <<>>
    /\ retriever.results # <<>>

\* the smaller of two numbers
Min(a, b) == IF a < b THEN a ELSE b

\* C22 (the claim as stated): when reconciliation ran and none of the records
\* it returned can be matched back by title to an original catalog or web
\* record (including when it returned none), retriever_node returns exactly
\* the first 5 original catalog records followed by the first 3 original web
\* records, in their sources' order, tagged local_corpus and web_search.
C22_Claim ==
    ( /\ RetrieverDone /\ recon_resp.kind = "ok"
      /\ \A j \in 1..Len(recon_resp.results) :
             /\ ~TitleIn(rag_resp.results, recon_resp.results[j].title)
             /\ ~TitleIn(web_resp.results, recon_resp.results[j].title) ) =>
        LET catalog == Min(5, Len(rag_resp.results))
            web == Min(3, Len(web_resp.results))
        IN  /\ pc = "answerer"
            /\ Len(retriever.results) = catalog + web
            /\ \A i \in 1..catalog :
                   IsCatalogRecordOf(retriever.results[i], rag_resp.results[i])
            /\ \A i \in 1..web :
                   IsWebRecordOf(retriever.results[catalog + i], web_resp.results[i])

\* C23 (the claim as stated): on the catalog-only path (only private
\* requested, or the web fetch failed) every catalog record returned has a
\* url if and only if the URL lookup resolves its uniq_id, and then the url is
\* the resolved one; a url that arrived in the raw catalog record is removed
\* when the lookup finds nothing.
C23_Claim ==
    ( /\ RetrieverReturned
      /\ Requested("private") /\ rag_resp.kind = "ok"
      /\ web_resp.kind = "none" ) =>
        \A i \in 1..Len(retriever.results) :
            LET r == retriever.results[i]
                resolves == r.uniq_id \in DOMAIN ProductUrlLookup
            IN  /\ (r.url # Absent) = resolves
                /\ resolves => r.url = ProductUrlLookup[r.uniq_id]

\* the positions in calls of the calls to one collaborator
CallsTo(op) == {i \in 1..Len(calls) : calls[i].op = op}

\* C24: in one retrieve the web client is called at most once and only when
\* "live" is in the plan's sources, always with n_results = 3 and with the
\* plan's query followed by use_web_for when that is non-empty (the plain
\* query otherwise); the catalog client is called at most once and only when
\* "private" is in the sources, and before the web call.
C24_Calls ==
    RetrieverDone =>
        /\ Cardinality(CallsTo("web_search")) <= 1
        /\ Cardinality(CallsTo("rag_search")) <= 1
        /\ (CallsTo("web_search") # {}) = Requested("live")
        /\ (CallsTo("rag_search") # {}) = Requested("private")
        /\ \A i \in CallsTo("web_search") :
               /\ calls[i].args.n_results = "3"
               /\ calls[i].args.query =
                      IF planner.use_web_for \in {"", None, Absent}
                      THEN planner.search_params.query
                      ELSE planner.search_params.query \o " "
                               \o planner.use_web_for
               /\ \A j \in CallsTo("rag_search") : j < i

C24_Witness ==
    /\ RetrieverDone
    /\ CallsTo("rag_search") # {} /\ CallsTo("web_search") # {}
    /\ planner.use_web_for = "current deals"
    /\ planner.search_params.n_results = "1"

\* the record rag_search returned is the one built for the candidate c
ReturnedFor(r, c) ==
    /\ r.title = GetOr(c.meta.title, "")
    /\ r.doc_id = GetOr(c.meta.doc_id, "")
    /\ r.price = GetOr(c.meta.price, "")

\* C25: rag_search takes 2 x n_results candidates from the index, filters
\* them, optionally reranks and truncates: it returns at most n_results
\* records, each built for a different candidate that passed the filters,
\* and when no more than n_results candidates passed it returns all of them
\* (none for zero), without raising.
C25_Truncation ==
    server.pc = "done" =>
        LET n_results == NumberOf[server.args.n_results]
            queried == Take(server.index, 2 * n_results)
            passed == server.filtered
            returned == server.results
        IN  /\ ~server.raised
            /\ Len(passed) <= Len(queried)
            /\ \A j \in 1..Len(passed) :
                   \E k \in 1..Len(queried) : passed[j] = queried[k]
            /\ Len(returned) = Min(n_results, Len(passed))
            /\ \E pick \in [1..Len(returned) -> 1..Len(passed)] :
                   /\ \A i, j \in 1..Len(returned) : i # j => pick[i] # pick[j]
                   /\ \A i \in 1..Len(returned) :
                          ReturnedFor(returned[i], passed[pick[i]])

\* C25 witness: asked for one record, with two candidates passing the
\* filters, the tool returned one record.
C25_Witness ==
    /\ server.pc = "done"
    /\ server.args.n_results = "1"
    /\ Len(server.filtered) = 2
    /\ Len(server.results) = 1

\* C25 second witness state: every queried candidate was filtered out and
\* the tool returned an empty list
C25_NonePassed ==
    /\ server.pc = "done" /\ ~server.raised
    /\ Len(server.index) = 2
    /\ server.filtered = <<>> /\ server.results = <<>>

\* C26 (the claim as stated): with a brand filter apply_metadata_filters
\* keeps a candidate only if the filter string occurs, ignoring case, in the
\* candidate's brand field, whatever its title and document text say;
\* likewise a category filter is matched against the category field only and
\* must_contain against the document text only.
C26_Claim ==
    (server.pc = "done" /\ ~server.raised) =>
        \A j \in 1..Len(server.filtered) :
            LET c == server.filtered[j]
            IN  /\ Truthy(server.args.brand) =>
                       Contains(Lower(server.args.brand), Lower(Str(c.meta.brand)))
                /\ Truthy(server.args.category) =>
                       Contains(Lower(server.args.category),
                                Lower(Str(c.meta.category)))
                /\ Truthy(server.args.must_contain) =>
                       Contains(Lower(server.args.must_contain), Lower(c.doc))

\* C27: each stage writes only its own part of the pipeline state:
\* router_node only router, planner_node only planner, retriever_node only
\* retriever, answerer_node only final_answer, citations, web_urls and
\* grounded, safety_response_node only final_answer; and the intent, the
\* plan and the retrieval result, once written, are never modified.
C27_OwnPart ==
    [][ /\ user_input' = user_input
        /\ pc = "router" =>
               planner' = planner /\ retriever' = retriever /\ answer' = answer
        /\ pc = "planner" =>
               router' = router /\ retriever' = retriever /\ answer' = answer
        /\ pc = "retriever" =>
               router' = router /\ planner' = planner /\ answer' = answer
        /\ pc = "answerer" =>
               router' = router /\ planner' = planner /\ retriever' = retriever
        /\ pc = "safety_response" =>
               /\ router' = router /\ planner' = planner /\ retriever' = retriever
               /\ answer'.set /\ ~answer'.has_citations
               /\ answer'.citations = <<>> /\ answer'.web_urls = <<>>
               /\ answer'.grounded = Absent
        /\ router.set => router' = router
        /\ planner.set => planner' = planner
        /\ retriever.set => retriever' = retriever
      ]_vars

\* C27 witness: every stage of a search run has written its part
C27_Witness ==
    /\ pc = "END" /\ LastNode = "answerer"
    /\ router.set /\ planner.set /\ retriever.set
    /\ answer.set /\ answer.has_citations

\* C27 second witness state: the safety response has written final_answer
C27_SafetyResponded ==
    /\ pc = "END" /\ LastNode = "safety_response"
    /\ router.set /\ ~planner.set /\ ~retriever.set /\ answer.set

\* C28 (the claim as stated): the pipeline depends on the route and not on
\* safety_flags: an intent with route search or general, non-empty
\* safety_flags and a non-empty retrieval result still gets a synthesized
\* or templated recommendation.
C28_Claim ==
    ( /\ AnswererDone
      /\ router.route # "unsafe" /\ router.safety_flags # <<>>
      /\ AnswererResults(retriever) # <<>> ) =>
        answer.final_answer.kind \in {"synthesized", "template"}

\* C29 (the claim as stated): the conflicts and recommendations returned by
\* retriever_node are non-empty only if both sources were queried, both
\* fetches succeeded and the reconciliation call completed successfully.
C29_Claim ==
    ( /\ RetrieverReturned
      /\ (retriever.conflicts # <<>> \/ retriever.recommendations # <<>>) ) =>
        /\ Requested("private") /\ Requested("live")
        /\ rag_resp.kind = "ok" /\ web_resp.kind = "ok"
        /\ recon_resp.kind = "ok"

\* C30 (the claim as stated): on the successful synthesis path every
\* identifier in citations and every URL in web_urls belongs to one of the
\* records supplied to the synthesis and grounding calls, the first 5
\* records of the retrieval result.
C30_Claim ==
    (AnswererDone /\ answer.final_answer.kind = "synthesized") =>
        \A c \in CallsTo("synthesize") :
            LET seen == calls[c].args
            IN  /\ \A i \in 1..Len(answer.citations) :
                       \E j \in 1..Len(seen) :
                           answer.citations[i] \in {seen[j].uniq_id, seen[j].doc_id}
                /\ \A i \in 1..Len(answer.web_urls) :
                       \E j \in 1..Len(seen) : answer.web_urls[i] = seen[j].url

====
